---- MODULE Spec2Model ----
(***************************************************************************)
(* Model of the FOMO_embedding pipeline: the recursive text splitter       *)
(* (vector/text_splitter.py) and the batched embedding loop                *)
(* (vector/text_embedder.py).                                              *)
(*                                                                         *)
(* A Python str is modelled as a sequence of one-character strings, so     *)
(* len, slicing, find, split, join and strip are computed on characters.   *)
(* Offsets returned by Find and stored in chunk records are 0-based, as in *)
(* Python; SubSeq positions are 1-based.                                   *)
(***************************************************************************)
EXTENDS Integers, Sequences, FiniteSets, TLC

VARIABLES
    \* ---- TextSplitter object (text_splitter.py) ----
    chunk_size,        \* self.chunk_size
    chunk_overlap,     \* self.chunk_overlap
    separators,        \* self.separators
    \* ---- one call of TextSplitter.split_text ----
    text,              \* the argument of split_text
    full_text,         \* the normalized text the offsets refer to
    segments,          \* the segment list before _add_overlap at the deciding level
    mode,              \* how that level built it: "whole", "chars" or "packed"
    chunks,            \* what _split_text_recursive returned
    result,            \* the list of chunk records split_text returned
    pc,                \* "start" before the call, "done" after it
    \* ---- TextEmbedder object (text_embedder.py) ----
    client,            \* self.client is set (TRUE) or None (FALSE)
    enable_text_splitting, \* self.enable_text_splitting
    max_content_length,    \* self.max_content_length
    \* ---- one call of TextEmbedder.generate_embeddings ----
    news_items,        \* the argument: a sequence of items [id, content]
    batch_size,        \* self.batch_size
    retry_attempts,    \* the retry_attempts argument
    all_chunks,        \* chunk records prepared for embedding
    batch_idx,         \* 0-based index of the batch being processed
    attempt,           \* 0-based attempt number within the batch
    text_pos,          \* how many texts of the batch this attempt has embedded
    embeddings_batch,  \* vectors collected by the running attempt
    chunk_idx,         \* offset of the batch's first chunk in all_chunks
    all_embeddings,    \* returned vectors
    successful_chunks, \* returned chunk records
    epc,               \* "start", "batch" (at the head of the attempt loop),
                       \* "embed" (inside the try block), "returned", "raised"
    \* ---- history of the embedding client, for stating the claims ----
    ok_calls,          \* ok_calls[c]: successful embed calls made for chunk c
    failed_calls,      \* failed_calls[c]: failed embed calls made for chunk c
    batch_attempts,    \* batch_attempts[b]: attempts started for batch b
    batch_outcome,     \* batch_outcome[b]: "todo", "ok" or "skipped"
    \* ---- two passes of a _clean_text over one text ----
    cleaner,           \* whose _clean_text: "splitter" or "embedder"
    cleaned_once,      \* _clean_text(text)
    cleaned_twice,     \* _clean_text(_clean_text(text))
    \* ---- the activations of _split_text_recursive ----
    rec_stack,         \* the call stack, innermost activation last: records of
                       \* text, seps (the arguments), phase and i (the loop index)
    \* ---- the news_items table and the runs of NewsEmbeddingProcessor ----
    runs,              \* the runs of the script that take place
    embedding_status,  \* embedding_status[row]: the column of that name
    embedding_vector_id, \* embedding_vector_id[row]: the column of that name
    row_chunks,        \* row_chunks[row]: how many chunks the row's content gives
    run_pc,            \* run_pc[r]: where run r stands
    pending_items,     \* pending_items[r]: the rows run r fetched
    run_batch,         \* run_batch[r]: the loop index i of run()
    run_chunks,        \* run_chunks[r]: successful_chunks of the current batch
    run_vector_ids,    \* run_vector_ids[r]: vector_ids of the current batch
    run_outcome,       \* run_outcome[r]: the path by which the last
                       \* process_batch of run r returned
    upserted_by        \* upserted_by[row]: the runs whose upsert of a chunk of
                       \* the row was accepted by the index

splitterVars == <<chunk_size, chunk_overlap, separators>>
callVars == <<text, full_text, segments, mode, chunks, result, pc>>
embedVars == <<client, enable_text_splitting, max_content_length,
               news_items, batch_size, retry_attempts, all_chunks, batch_idx,
               attempt, text_pos, embeddings_batch, chunk_idx, all_embeddings,
               successful_chunks, epc>>
historyVars == <<ok_calls, failed_calls, batch_attempts, batch_outcome>>
cleanVars == <<cleaner, cleaned_once, cleaned_twice>>
recVars == <<rec_stack>>
storeVars == <<embedding_status, embedding_vector_id>>
procVars == <<runs, storeVars, row_chunks, run_pc, pending_items, run_batch,
              run_chunks, run_vector_ids, run_outcome, upserted_by>>
vars == <<splitterVars, callVars, embedVars, historyVars, cleanVars, recVars,
          procVars>>

----------------------------------------------------------------------------
(* Bounds of the model *)

MaxLen == 6          \* longest input text of split_text
MaxChunkSize == 3    \* largest configured chunk_size
MaxItems == 2        \* most news items in one call of generate_embeddings
MaxBatchSize == 2    \* largest configured batch_size
MaxRetry == 2        \* largest retry_attempts argument
MaxCleanLen == 5     \* longest input text of the two-pass normalization
MaxRecLen == 5       \* longest text of the stepwise recursion
MaxRows == 2         \* rows of the news_items table
MaxRowChunks == 2    \* most chunks the content of one row gives

Alphabet == {"a", "b", " ", "\n"}

----------------------------------------------------------------------------
(* Python string primitives *)

Min(S) == CHOOSE x \in S : \A y \in S : x <= y
Max(S) == CHOOSE x \in S : \A y \in S : x >= y

\* Whitespace as str.strip() and the regex class \s see it: space, \n, \r, \t
\* and, written as code points, vertical tab, form feed and the separators
\* U+001C..U+001F
IsSpace(c) ==
    c \in {" ", "\n", "\r", "\t", "U+000B", "U+000C", "U+001C", "U+001D", "U+001E",
           "U+001F"}

\* s[a:b] for 0 <= a, clipped to the end of s as Python slicing is
Slice(s, a, b) == SubSeq(s, a + 1, IF b < Len(s) THEN b ELSE Len(s))

\* str.strip()
Strip(s) ==
    LET keep == {i \in 1..Len(s) : ~IsSpace(s[i])}
    IN IF keep = {} THEN <<>> ELSE SubSeq(s, Min(keep), Max(keep))

\* str.find(sub): lowest 0-based offset of sub in s, -1 when absent
Find(s, sub) ==
    LET occ == {i \in 0..(Len(s) - Len(sub)) : SubSeq(s, i + 1, i + Len(sub)) = sub}
    IN IF occ = {} THEN -1 ELSE Min(occ)

\* str.split(sep) for a non-empty sep: from[i] is the list of pieces of s[i:],
\* cut at the leftmost occurrence of sep at or after offset i
PySplit(s, sep) ==
    LET from[i \in 0..Len(s)] ==
            LET occ == {j \in i..(Len(s) - Len(sep)) :
                           SubSeq(s, j + 1, j + Len(sep)) = sep}
            IN IF occ = {} THEN <<SubSeq(s, i + 1, Len(s))>>
               ELSE <<SubSeq(s, i + 1, Min(occ))>> \o from[Min(occ) + Len(sep)]
    IN from[0]

\* sep.join(parts)
RECURSIVE Join(_, _)
Join(parts, sep) ==
    IF parts = <<>> THEN <<>>
    ELSE IF Len(parts) = 1 THEN parts[1]
    ELSE parts[1] \o sep \o Join(Tail(parts), sep)

----------------------------------------------------------------------------
(* TextSplitter._clean_text *)

\* re.sub(r'<[^>]+>', '', s): a '<', one or more characters other than '>',
\* then '>'; matches are taken leftmost and do not overlap
RECURSIVE RemoveTags(_)
RemoveTags(s) ==
    IF s = <<>> THEN <<>>
    ELSE LET closes == {j \in 2..Len(s) : s[j] = ">"}
         IN IF Head(s) = "<" /\ closes # {} /\ Min(closes) >= 3
            THEN RemoveTags(SubSeq(s, Min(closes) + 1, Len(s)))
            ELSE <<Head(s)>> \o RemoveTags(Tail(s))

\* re.sub(r'\r\n|\r', '\n', s)
RECURSIVE UnifyNewlines(_)
UnifyNewlines(s) ==
    IF s = <<>> THEN <<>>
    ELSE IF Head(s) = "\r"
         THEN IF Len(s) > 1 /\ s[2] = "\n"
              THEN <<"\n">> \o UnifyNewlines(SubSeq(s, 3, Len(s)))
              ELSE <<"\n">> \o UnifyNewlines(Tail(s))
         ELSE <<Head(s)>> \o UnifyNewlines(Tail(s))

\* re.sub(r'\n\s*\n', '\n\n', s): from a newline, the greedy \s* backs off to
\* the last newline of the whitespace run that follows
RECURSIVE CollapseBlankLines(_)
CollapseBlankLines(s) ==
    IF s = <<>> THEN <<>>
    ELSE LET run == {j \in 2..Len(s) : \A i \in 2..j : IsSpace(s[i])}
             nls == {j \in run : s[j] = "\n"}
         IN IF Head(s) = "\n" /\ nls # {}
            THEN <<"\n", "\n">> \o CollapseBlankLines(SubSeq(s, Max(nls) + 1, Len(s)))
            ELSE <<Head(s)>> \o CollapseBlankLines(Tail(s))

\* [line.strip() for line in lines]
StripEach(lines) == [i \in 1..Len(lines) |-> Strip(lines[i])]

\* splitter_clean_text with the line terminators unified after the blank
\* lines are collapsed instead of before
splitter_clean_text_unify_late(t) ==
    LET t1 == RemoveTags(t)
        t2 == CollapseBlankLines(t1)
        t3 == UnifyNewlines(t2)
        t4 == Join(StripEach(PySplit(t3, <<"\n">>)), <<"\n">>)
    IN Strip(t4)

splitter_clean_text(t) ==
    LET t1 == RemoveTags(t)
        t2 == UnifyNewlines(t1)
        t3 == CollapseBlankLines(t2)
        t4 == Join(StripEach(PySplit(t3, <<"\n">>)), <<"\n">>)
    IN Strip(t4)

----------------------------------------------------------------------------
(* TextSplitter._build_char_line_map and _get_line_number *)

\* The dict is modelled as a sequence: char_to_line[p + 1] is the line number
\* stored under key p; the keys are 0 .. Len - 1.
RECURSIVE build_char_line_map_from(_, _)
build_char_line_map_from(lines, line_num) ==
    IF line_num > Len(lines) THEN <<>>
    ELSE [k \in 1..(Len(lines[line_num]) + 1) |-> line_num]
         \o build_char_line_map_from(lines, line_num + 1)

build_char_line_map(lines) == build_char_line_map_from(lines, 1)

\* get_line_number looking for a key strictly below char_pos
get_line_number_strict(char_pos, char_to_line_map) ==
    LET available == {p \in 0..(Len(char_to_line_map) - 1) : p < char_pos}
    IN IF available = {} THEN 1 ELSE char_to_line_map[Max(available) + 1]

get_line_number(char_pos, char_to_line_map) ==
    LET available == {p \in 0..(Len(char_to_line_map) - 1) : p <= char_pos}
    IN IF available = {} THEN 1 ELSE char_to_line_map[Max(available) + 1]

----------------------------------------------------------------------------
(* TextSplitter._add_overlap and _split_text_recursive *)

\* add_overlap with the overlap read from the front of the previous chunk
\* (prev_chunk[:chunk_overlap]) instead of from its end
add_overlap_from_front(cs) ==
    IF Len(cs) <= 1 THEN cs
    ELSE [i \in 1..Len(cs) |->
            IF i = 1 THEN cs[1] ELSE Slice(cs[i - 1], 0, chunk_overlap) \o cs[i]]

add_overlap(cs) ==
    IF Len(cs) <= 1 THEN cs
    ELSE [i \in 1..Len(cs) |->
            IF i = 1 THEN cs[1]
            ELSE LET prev_chunk == cs[i - 1]
                     overlap_text ==
                         IF Len(prev_chunk) > chunk_overlap /\ chunk_overlap > 0
                         THEN SubSeq(prev_chunk, Len(prev_chunk) - chunk_overlap + 1,
                                     Len(prev_chunk))
                         ELSE prev_chunk    \* s[-0:] is the whole of s
                 IN overlap_text \o cs[i]]

\* char_level_split stepping by chunk_size, the overlap left out
char_level_split_no_overlap(t) ==
    LET stride == chunk_size
        n == IF stride > 0 THEN (Len(t) + stride - 1) \div stride ELSE 0
    IN [j \in 1..n |-> Slice(t, (j - 1) * stride, (j - 1) * stride + chunk_size)]

\* the character-level branch: for i in range(0, len(t), chunk_size - chunk_overlap)
char_level_split(t) ==
    LET stride == chunk_size - chunk_overlap
        n == IF stride > 0 THEN (Len(t) + stride - 1) \div stride ELSE 0
    IN [j \in 1..n |-> Slice(t, (j - 1) * stride, (j - 1) * stride + chunk_size)]

\* lower_separators handing the same list down
lower_separators_same(seps) == seps

\* separators[1:] if len(separators) > 1 else [""]
lower_separators(seps) == IF Len(seps) > 1 THEN Tail(seps) ELSE << <<>> >>

\* split_text_recursive returns a record: ret is the returned list, packed is
\* the local list `chunks` as it stands before the overlap step of the level
\* that builds it, and mode names the branch that built it ("whole": the text
\* fits, "chars": the character-level branch, "packed": the re-packing loop).
RECURSIVE split_text_recursive(_, _)
RECURSIVE pack_splits(_, _, _, _, _)

\* the re-packing loop over splits[i..], with the loop's locals acc (`chunks`)
\* and current (`current_chunk`), and the final append after the loop
pack_splits(splits, i, acc, current, seps) ==
    IF i > Len(splits)
    THEN IF current # <<>> THEN Append(acc, current) ELSE acc
    ELSE LET split == splits[i]
             test_chunk == IF current # <<>> THEN current \o Head(seps) \o split
                           ELSE split
             saved == IF current # <<>> THEN Append(acc, current) ELSE acc
         IN IF Len(test_chunk) <= chunk_size
            THEN pack_splits(splits, i + 1, acc, test_chunk, seps)
            ELSE IF Len(split) > chunk_size
                 THEN pack_splits(splits, i + 1,
                          saved \o split_text_recursive(split, lower_separators(seps)).ret,
                          <<>>, seps)
                 ELSE pack_splits(splits, i + 1, saved, split, seps)

split_text_recursive(t, seps) ==
    IF Len(t) <= chunk_size THEN [mode |-> "whole", packed |-> <<t>>, ret |-> <<t>>]
    ELSE LET separator == IF seps # <<>> THEN Head(seps) ELSE <<>>
         IN IF separator = <<>>
            THEN [mode |-> "chars", packed |-> char_level_split(t),
                  ret |-> char_level_split(t)]
            ELSE LET splits == PySplit(t, separator)
                 IN IF Len(splits) = 1
                    THEN split_text_recursive(t, lower_separators(seps))
                    ELSE LET packed == pack_splits(splits, 1, <<>>, <<>>, seps)
                         IN [mode |-> "packed", packed |-> packed,
                             ret |-> IF chunk_overlap > 0 /\ Len(packed) > 1
                                     THEN add_overlap(packed) ELSE packed]

\* range(0, len(t), 0) raises ValueError: whether the activation on t reaches
\* the character-level branch with chunk_size - chunk_overlap = 0, following
\* the recursive calls of split_text_recursive
RECURSIVE char_level_raises(_, _)
char_level_raises(t, seps) ==
    IF Len(t) <= chunk_size THEN FALSE
    ELSE LET separator == IF seps # <<>> THEN Head(seps) ELSE <<>>
         IN IF separator = <<>>
            THEN chunk_size - chunk_overlap = 0
            ELSE LET splits == PySplit(t, separator)
                 IN IF Len(splits) = 1
                    THEN char_level_raises(t, lower_separators(seps))
                    ELSE \E i \in 1..Len(splits) :
                            /\ Len(splits[i]) > chunk_size
                            /\ char_level_raises(splits[i], lower_separators(seps))

----------------------------------------------------------------------------
(* TextSplitter.split_text *)

\* chunk_record with end_pos computed as len(chunk) - 1, start_pos left out
chunk_record_end_from_zero(ft, char_to_line_map, chunk, i) ==
    LET start_pos == Find(ft, chunk)
        end_pos == Len(chunk) - 1
    IN [text |-> Strip(chunk),
        chunk_id |-> i,
        char_start |-> start_pos,
        char_end |-> end_pos,
        line_start |-> get_line_number(start_pos, char_to_line_map),
        line_end |-> get_line_number(end_pos, char_to_line_map),
        length |-> Len(Strip(chunk))]

\* the record appended for the raw chunk at 0-based position i
chunk_record(ft, char_to_line_map, chunk, i) ==
    LET start_pos == Find(ft, chunk)
        end_pos == start_pos + Len(chunk) - 1
    IN [text |-> Strip(chunk),
        chunk_id |-> i,
        char_start |-> start_pos,
        char_end |-> end_pos,
        line_start |-> get_line_number(start_pos, char_to_line_map),
        line_end |-> get_line_number(end_pos, char_to_line_map),
        length |-> Len(Strip(chunk))]

\* the loop over enumerate(chunks); whitespace-only chunks are skipped
chunk_records(ft, char_to_line_map, cks) ==
    LET all == [i \in 1..Len(cks) |-> chunk_record(ft, char_to_line_map, cks[i], i - 1)]
    IN SelectSeq(all, LAMBDA r : r.text # <<>>)

\* split_text as a record of its locals: full_text, the list `chunks` and
\* its pre-overlap form, and the returned list
split_text(t) ==
    IF t = <<>>
    THEN [full_text |-> <<>>, mode |-> "none", packed |-> <<>>, chunks |-> <<>>,
          result |-> <<>>]
    ELSE LET cleaned == splitter_clean_text(t)
             lines == PySplit(cleaned, <<"\n">>)
             char_to_line_map == build_char_line_map(lines)
             ft == Join(lines, <<"\n">>)
             split == split_text_recursive(ft, separators)
         IN [full_text |-> ft, mode |-> split.mode, packed |-> split.packed,
             chunks |-> split.ret,
             result |-> chunk_records(ft, char_to_line_map, split.ret)]

\* whether split_text(t) ends with the ValueError of the character-level branch
split_text_raises(t) ==
    /\ chunk_size - chunk_overlap = 0
    /\ t # <<>>
    /\ char_level_raises(Join(PySplit(splitter_clean_text(t), <<"\n">>), <<"\n">>),
                         separators)

----------------------------------------------------------------------------
(* The splitter specification: a configured TextSplitter and one call of   *)
(* split_text on an input drawn from the bounded set of texts.             *)

Texts == UNION {[1..n -> Alphabet] : n \in 0..MaxLen}

\* TextSplitter.__init__: the default separators, by priority; a character
\* outside ASCII is written as its code point (U+3002 is the ideographic full
\* stop, U+FF01 ! U+FF1F ? U+FF1B ; U+FF0C , in their fullwidth forms)
DefaultSeparators ==
    << <<"\n", "\n">>, <<"\n">>, <<"U+3002">>, <<"U+FF01">>, <<"U+FF1F">>,
       <<"U+FF1B">>, <<"U+FF0C">>, <<" ">>, <<>> >>

SeparatorLists ==
    {DefaultSeparators, << <<"\n", "\n">>, <<>> >>, << <<" ">>, <<"\n">> >>}

CleanIdle == cleaner = "none" /\ cleaned_once = <<>> /\ cleaned_twice = <<>>
RecIdle == rec_stack = <<>>
ProcIdle ==
    /\ runs = {} /\ embedding_status = <<>> /\ embedding_vector_id = <<>>
    /\ row_chunks = <<>> /\ run_pc = <<>> /\ pending_items = <<>>
    /\ run_batch = <<>> /\ run_chunks = <<>> /\ run_vector_ids = <<>>
    /\ run_outcome = <<>> /\ upserted_by = <<>>

EmbedIdle ==
    /\ client = FALSE /\ enable_text_splitting = TRUE /\ max_content_length = 0
    /\ news_items = <<>> /\ batch_size = 1 /\ retry_attempts = 1
    /\ all_chunks = <<>> /\ batch_idx = 0 /\ attempt = 0 /\ text_pos = 0
    /\ embeddings_batch = <<>> /\ chunk_idx = 0 /\ all_embeddings = <<>>
    /\ successful_chunks = <<>> /\ epc = "idle"
    /\ ok_calls = <<>> /\ failed_calls = <<>> /\ batch_attempts = <<>>
    /\ batch_outcome = <<>>

Init ==
    /\ chunk_size \in 1..MaxChunkSize
    /\ chunk_overlap \in 0..(chunk_size - 1)
    /\ separators \in SeparatorLists
    /\ text \in Texts
    /\ full_text = <<>> /\ segments = <<>> /\ mode = "none"
    /\ chunks = <<>> /\ result = <<>>
    /\ pc = "start"
    /\ EmbedIdle /\ CleanIdle /\ RecIdle /\ ProcIdle

SplitText ==
    /\ pc = "start"
    /\ IF split_text_raises(text)
       THEN /\ pc' = "raised"
            /\ UNCHANGED <<full_text, segments, mode, chunks, result>>
       ELSE /\ LET r == split_text(text)
               IN /\ full_text' = r.full_text
                  /\ segments' = r.packed
                  /\ mode' = r.mode
                  /\ chunks' = r.chunks
                  /\ result' = r.result
            /\ pc' = "done"
    /\ UNCHANGED <<splitterVars, text, embedVars, historyVars, cleanVars, recVars,
                   procVars>>

Next == SplitText

Spec == Init /\ [][Next]_vars

\* A splitter as TextSplitter.__init__ leaves it for any pair of arguments:
\* the constructor stores chunk_size and chunk_overlap without comparing them.
ConfigInit ==
    /\ chunk_size \in 1..MaxChunkSize
    /\ chunk_overlap \in 0..(chunk_size + 1)
    /\ separators \in SeparatorLists
    /\ text \in Texts
    /\ full_text = <<>> /\ segments = <<>> /\ mode = "none"
    /\ chunks = <<>> /\ result = <<>>
    /\ pc = "start"
    /\ EmbedIdle /\ CleanIdle /\ RecIdle /\ ProcIdle

ConfigSpec == ConfigInit /\ [][Next]_vars

----------------------------------------------------------------------------
(* Properties of the splitter *)

\* the last n characters of s
Suffix(s, n) == SubSeq(s, Len(s) - n + 1, Len(s))

\* the concatenation of a sequence of strings
Concat(parts) == Join(parts, <<>>)

\* C1: every segment of the list handed to the overlap step has length
\* <= chunk_size, segments received from a recursive call included.
C1_SegmentsWithinChunkSize ==
    pc = "done" => \A i \in 1..Len(segments) : Len(segments[i]) <= chunk_size

\* C2: every chunk returned by split_text has length = len(text) <= chunk_size.
C2_ChunksWithinChunkSize ==
    pc = "done" =>
        \A i \in 1..Len(result) :
            /\ result[i].length = Len(result[i].text)
            /\ result[i].length <= chunk_size

\* Chunk i > 0 with its overlapped prefix removed: the first
\* min(chunk_overlap, len(span i-1)) characters are dropped, span 0 being
\* chunk 0.
PreOverlapSpans(cks) ==
    LET span[i \in 1..Len(cks)] ==
            IF i = 1 THEN cks[1]
            ELSE LET n == Min({chunk_overlap, Len(span[i - 1]), Len(cks[i])})
                 IN SubSeq(cks[i], n + 1, Len(cks[i]))
    IN [i \in 1..Len(cks) |-> span[i]]

\* C3: the chunks, each without its overlapped prefix, concatenate to the
\* normalized text.
C3_Coverage ==
    pc = "done" => Concat(PreOverlapSpans(chunks)) = full_text

\* chunk i (1-based, i > 1) begins with the last min(k, len(segment i-1))
\* characters of the pre-overlap segment i-1
BeginsWithOverlap(i) ==
    LET n == Min({chunk_overlap, Len(segments[i - 1])})
    IN /\ Len(chunks[i]) >= n
       /\ SubSeq(chunks[i], 1, n) = Suffix(segments[i - 1], n)

C8_OffsetsValid ==
    pc = "done" =>
        \A i \in 1..Len(result) :
            LET r == result[i]
                segment == chunks[r.chunk_id + 1]
                after == IF i = 1 THEN 0 ELSE result[i - 1].char_end + 1
            IN /\ 0 <= r.char_start /\ r.char_start <= r.char_end
               /\ r.char_end < Len(full_text)
               /\ SubSeq(full_text, r.char_start + 1, r.char_end + 1) = segment
               /\ r.char_start >= after
               /\ \A p \in after..(r.char_start - 1) :
                     SubSeq(full_text, p + 1, p + Len(segment)) # segment

\* C9: line_start <= line_end and char_start <= char_end in every record.
C9_MonotonicProvenance ==
    pc = "done" =>
        \A i \in 1..Len(result) :
            /\ result[i].line_start <= result[i].line_end
            /\ result[i].char_start <= result[i].char_end

\* a record spanning two lines that starts after offset 0, and one of a chunk
\* that find() did not locate
C9_Witness ==
    /\ pc = "done"
    /\ \E i \in 1..Len(result) :
          result[i].line_start < result[i].line_end /\ result[i].char_start > 0
          /\ result[i].char_end > result[i].char_start

\* C10: without overlap, a later chunk has a strictly larger char_start.
C10_OrderFollowsDocument ==
    (pc = "done" /\ chunk_overlap = 0) =>
        \A i, j \in 1..Len(result) :
            i < j => result[i].char_start < result[j].char_start

----------------------------------------------------------------------------
(* TextEmbedder._clean_text and the preparation of chunks *)

\* CollapseWhitespace that leaves the text as it is
CollapseWhitespace_keep_lines(s) == s

\* re.sub(r'\s+', ' ', s)
RECURSIVE CollapseWhitespace(_)
CollapseWhitespace(s) ==
    IF s = <<>> THEN <<>>
    ELSE IF IsSpace(Head(s))
         THEN LET rest == {j \in 1..Len(s) : ~IsSpace(s[j])}
              IN <<" ">> \o (IF rest = {} THEN <<>>
                             ELSE CollapseWhitespace(SubSeq(s, Min(rest), Len(s))))
         ELSE <<Head(s)>> \o CollapseWhitespace(Tail(s))

\* the class [\x00-\x08\x0b\x0c\x0e-\x1f\x7f-\x9f], by the ends of its ranges
IsControl(c) ==
    c \in {"U+0000", "U+0008", "U+000B", "U+000C", "U+000E", "U+001C", "U+001D",
           "U+001E", "U+001F", "U+007F", "U+009F"}

\* re.sub(r'[\x00-\x08\x0b\x0c\x0e-\x1f\x7f-\x9f]', '', s)
RemoveControls(s) == SelectSeq(s, LAMBDA c : ~IsControl(c))

embedder_clean_text(t) ==
    IF t = <<>> THEN <<>>
    ELSE Strip(RemoveControls(CollapseWhitespace(RemoveTags(t))))

\* item_chunks without the `if not content: continue` of line 233
item_chunks_keep_empty(item, news_idx) ==
    LET content == embedder_clean_text(item.content)
    IN IF enable_text_splitting
       THEN LET cks == split_text(content).result
            IN [j \in 1..Len(cks) |->
                   [text |-> cks[j].text,
                    news_index |-> news_idx,
                    chunk_index |-> j - 1,
                    chunk_id |-> <<item.id, j - 1>>,
                    line_start |-> cks[j].line_start,
                    line_end |-> cks[j].line_end,
                    char_start |-> cks[j].char_start,
                    char_end |-> cks[j].char_end]]
       ELSE LET cut == IF Len(content) > max_content_length
                       THEN Slice(content, 0, max_content_length) \o <<".", ".", ".">>
                       ELSE content
            IN << [text |-> cut,
                   news_index |-> news_idx,
                   chunk_index |-> 0,
                   chunk_id |-> <<item.id, "full">>,
                   line_start |-> 1,
                   line_end |-> Cardinality({i \in 1..Len(cut) : cut[i] = "\n"}) + 1,
                   char_start |-> 0,
                   char_end |-> Len(cut)] >>

\* the chunk records one news item contributes to all_chunks; news_idx is the
\* 0-based position of the item, chunk_id stands for f"{id}_{suffix}"
item_chunks(item, news_idx) ==
    LET content == embedder_clean_text(item.content)
    IN IF content = <<>> THEN <<>>
       ELSE IF enable_text_splitting
       THEN LET cks == split_text(content).result
            IN [j \in 1..Len(cks) |->
                   [text |-> cks[j].text,
                    news_index |-> news_idx,
                    chunk_index |-> j - 1,
                    chunk_id |-> <<item.id, j - 1>>,
                    line_start |-> cks[j].line_start,
                    line_end |-> cks[j].line_end,
                    char_start |-> cks[j].char_start,
                    char_end |-> cks[j].char_end]]
       ELSE LET cut == IF Len(content) > max_content_length
                       THEN Slice(content, 0, max_content_length) \o <<".", ".", ".">>
                       ELSE content
            IN << [text |-> cut,
                   news_index |-> news_idx,
                   chunk_index |-> 0,
                   chunk_id |-> <<item.id, "full">>,
                   line_start |-> 1,
                   line_end |-> Cardinality({i \in 1..Len(cut) : cut[i] = "\n"}) + 1,
                   char_start |-> 0,
                   char_end |-> Len(cut)] >>

RECURSIVE prepare_chunks_from(_, _)
prepare_chunks_from(items, i) ==
    IF i > Len(items) THEN <<>>
    ELSE item_chunks(items[i], i - 1) \o prepare_chunks_from(items, i + 1)

\* the list all_chunks built from news_items
prepare_chunks(items) == prepare_chunks_from(items, 1)

\* TextEmbedder._split_into_batches, for batch_size > 0
split_into_batches(items, bs) ==
    [b \in 1..((Len(items) + bs - 1) \div bs) |-> Slice(items, (b - 1) * bs, b * bs)]

texts_to_embed == [i \in 1..Len(all_chunks) |-> all_chunks[i].text]
batches == split_into_batches(texts_to_embed, batch_size)
batch_texts == batches[batch_idx + 1]

\* what client.models.embed_content returns for a text when it succeeds
embedding_of(t) == <<"embedding", t>>

\* 1-based position in all_chunks of the text the running attempt sends next
sent_chunk == batch_idx * batch_size + text_pos + 1

----------------------------------------------------------------------------
(* The embedding specification: a configured TextEmbedder and one call of  *)
(* generate_embeddings, one step per call of the embedding client.         *)

ItemContents ==
    { <<>>, <<" ">>, <<"a", "b">>, <<"a", "b", " ", "b", "a">>,
      <<"a", "\n", "b", " ", "<", "i", ">", "a", "b", "b">> }

NewsItems ==
    UNION {[1..n -> ItemContents] : n \in 0..MaxItems}

SplitIdle ==
    /\ text = <<>> /\ full_text = <<>> /\ segments = <<>> /\ mode = "none"
    /\ chunks = <<>> /\ result = <<>> /\ pc = "idle"

EmbedInit ==
    /\ chunk_size = MaxChunkSize
    /\ chunk_overlap \in {0, 1}
    /\ separators = DefaultSeparators
    /\ SplitIdle /\ CleanIdle /\ RecIdle /\ ProcIdle
    /\ client \in BOOLEAN
    /\ enable_text_splitting \in BOOLEAN
    /\ max_content_length = MaxChunkSize
    /\ \E contents \in NewsItems :
          news_items = [i \in 1..Len(contents) |-> [id |-> i, content |-> contents[i]]]
    /\ batch_size \in 1..MaxBatchSize
    /\ retry_attempts \in 0..MaxRetry
    /\ all_chunks = <<>> /\ batch_idx = 0 /\ attempt = 0 /\ text_pos = 0
    /\ embeddings_batch = <<>> /\ chunk_idx = 0 /\ all_embeddings = <<>>
    /\ successful_chunks = <<>> /\ epc = "start"
    /\ ok_calls = <<>> /\ failed_calls = <<>> /\ batch_attempts = <<>>
    /\ batch_outcome = <<>>

configVars == <<splitterVars, callVars, cleanVars, recVars, procVars, client,
                enable_text_splitting, max_content_length, news_items, batch_size,
                retry_attempts>>

\* lines 225-281: the early returns, all_chunks, the batches and the counters
PrepareChunks ==
    /\ epc = "start"
    /\ IF ~client \/ news_items = <<>> \/ prepare_chunks(news_items) = <<>>
       THEN /\ epc' = "returned"
            /\ UNCHANGED <<all_chunks, ok_calls, failed_calls, batch_attempts,
                           batch_outcome>>
       ELSE LET prepared == prepare_chunks(news_items)
                n == Len(split_into_batches(prepared, batch_size))
            IN /\ all_chunks' = prepared
               /\ ok_calls' = [c \in 1..Len(prepared) |-> 0]
               /\ failed_calls' = [c \in 1..Len(prepared) |-> 0]
               /\ batch_attempts' = [b \in 1..n |-> 0]
               /\ batch_outcome' = [b \in 1..n |-> "todo"]
               /\ epc' = "batch"
    /\ UNCHANGED <<configVars, batch_idx, attempt, text_pos, embeddings_batch,
                   chunk_idx, all_embeddings, successful_chunks>>

\* `for attempt in range(retry_attempts)` yields an attempt: enter the try block
BeginAttempt ==
    /\ epc = "batch" /\ batch_idx < Len(batches) /\ attempt < retry_attempts
    /\ embeddings_batch' = <<>>
    /\ text_pos' = 0
    /\ batch_attempts' = [batch_attempts EXCEPT ![batch_idx + 1] = @ + 1]
    /\ epc' = "embed"
    /\ UNCHANGED <<configVars, all_chunks, batch_idx, attempt, chunk_idx,
                   all_embeddings, successful_chunks, ok_calls, failed_calls,
                   batch_outcome>>

\* lines 289-294: embed_content returns a vector for the next text of the batch
EmbedOk ==
    /\ epc = "embed" /\ text_pos < Len(batch_texts)
    /\ embeddings_batch' = Append(embeddings_batch, embedding_of(batch_texts[text_pos + 1]))
    /\ text_pos' = text_pos + 1
    /\ ok_calls' = [ok_calls EXCEPT ![sent_chunk] = @ + 1]
    /\ UNCHANGED <<configVars, all_chunks, batch_idx, attempt, chunk_idx,
                   all_embeddings, successful_chunks, epc, failed_calls,
                   batch_attempts, batch_outcome>>

\* EmbedFail with the last failure re-raised instead of skipping the batch
EmbedFail_reraise ==
    /\ epc = "embed" /\ text_pos < Len(batch_texts)
    /\ failed_calls' = [failed_calls EXCEPT ![sent_chunk] = @ + 1]
    /\ attempt' = attempt + 1
    /\ epc' = IF attempt < retry_attempts - 1 THEN "batch" ELSE "raised"
    /\ UNCHANGED <<configVars, all_chunks, batch_idx, text_pos, embeddings_batch,
                   chunk_idx, all_embeddings, successful_chunks, ok_calls,
                   batch_attempts, batch_outcome>>

\* EmbedFail without `chunk_idx += len(batch_texts)` on the last failure
EmbedFail_no_skip ==
    /\ epc = "embed" /\ text_pos < Len(batch_texts)
    /\ failed_calls' = [failed_calls EXCEPT ![sent_chunk] = @ + 1]
    /\ attempt' = attempt + 1
    /\ epc' = "batch"
    /\ UNCHANGED <<configVars, all_chunks, batch_idx, text_pos, embeddings_batch,
                   chunk_idx, all_embeddings, successful_chunks, ok_calls,
                   batch_attempts, batch_outcome>>

\* lines 306-313: embed_content raises; the except clause sleeps before the
\* next attempt, or after the last attempt steps chunk_idx over the batch
EmbedFail ==
    /\ epc = "embed" /\ text_pos < Len(batch_texts)
    /\ failed_calls' = [failed_calls EXCEPT ![sent_chunk] = @ + 1]
    /\ chunk_idx' = IF attempt < retry_attempts - 1 THEN chunk_idx
                    ELSE chunk_idx + Len(batch_texts)
    /\ attempt' = attempt + 1
    /\ epc' = "batch"
    /\ UNCHANGED <<configVars, all_chunks, batch_idx, text_pos, embeddings_batch,
                   all_embeddings, successful_chunks, ok_calls, batch_attempts,
                   batch_outcome>>

\* lines 296-304: every text of the batch is embedded; record the pairs,
\* advance chunk_idx and break out of the attempt loop
RecordBatch ==
    /\ epc = "embed" /\ text_pos = Len(batch_texts)
    /\ all_embeddings' = all_embeddings \o embeddings_batch
    /\ successful_chunks' = successful_chunks \o
          [i \in 1..Len(embeddings_batch) |-> all_chunks[chunk_idx + i]]
    /\ chunk_idx' = chunk_idx + Len(batch_texts)
    /\ batch_outcome' = [batch_outcome EXCEPT ![batch_idx + 1] = "ok"]
    /\ batch_idx' = batch_idx + 1
    /\ attempt' = 0
    /\ epc' = "batch"
    /\ UNCHANGED <<configVars, all_chunks, text_pos, embeddings_batch, ok_calls,
                   failed_calls, batch_attempts>>

\* the attempt loop runs out without a break: on to the next batch
NextBatch ==
    /\ epc = "batch" /\ batch_idx < Len(batches) /\ attempt >= retry_attempts
    /\ batch_outcome' = [batch_outcome EXCEPT ![batch_idx + 1] = "skipped"]
    /\ batch_idx' = batch_idx + 1
    /\ attempt' = 0
    /\ UNCHANGED <<configVars, all_chunks, text_pos, embeddings_batch, chunk_idx,
                   all_embeddings, successful_chunks, epc, ok_calls, failed_calls,
                   batch_attempts>>

\* lines 315-319: the batch loop is over
Return ==
    /\ epc = "batch" /\ batch_idx = Len(batches)
    /\ epc' = "returned"
    /\ UNCHANGED <<configVars, all_chunks, batch_idx, attempt, text_pos,
                   embeddings_batch, chunk_idx, all_embeddings, successful_chunks,
                   historyVars>>

EmbedNext ==
    \/ PrepareChunks
    \/ BeginAttempt
    \/ EmbedOk
    \/ EmbedFail
    \/ RecordBatch
    \/ NextBatch
    \/ Return

EmbedSpec == EmbedInit /\ [][EmbedNext]_vars

----------------------------------------------------------------------------
(* Properties of generate_embeddings *)

\* the positions in all_chunks of the chunks of batch b (1-based)
BatchChunks(b) ==
    {c \in 1..Len(all_chunks) : (c - 1) \div batch_size = b - 1}

\* chunk c is paired with the embedding of its text in the returned lists
Returned(c) ==
    \E i \in 1..Len(successful_chunks) :
        /\ successful_chunks[i] = all_chunks[c]
        /\ i <= Len(all_embeddings)
        /\ all_embeddings[i] = embedding_of(all_chunks[c].text)

\* c is the one chunk of batch b whose embed call failed, it failed on every
\* attempt, and no call for another chunk of the batch failed
OnlyFailureOfBatch(c, b) ==
    /\ c \in BatchChunks(b)
    /\ failed_calls[c] >= 1 /\ ok_calls[c] = 0
    /\ \A d \in BatchChunks(b) \ {c} : failed_calls[d] = 0

\* C5: when one chunk of a batch fails on every attempt and the others never
\* fail, the result holds an embedding for each of the others and only that
\* chunk is missing.
C5_FailureIsolation ==
    epc = "returned" =>
        \A b \in 1..Len(batches) : \A c \in BatchChunks(b) :
            OnlyFailureOfBatch(c, b) =>
                /\ ~Returned(c)
                /\ \A d \in BatchChunks(b) \ {c} : Returned(d)

\* the positions in all_chunks at which the i-th returned chunk stands
PositionsOf(i) == {p \in 1..Len(all_chunks) : all_chunks[p] = successful_chunks[i]}

\* C6: the returned lists pair up: equal length, successful_chunks a
\* duplicate-free subsequence of all_chunks in order, each vector the embedding
\* of its chunk's text; the chunks of a skipped batch are absent and were sent
\* only during that batch's own attempts.
C6_OrderedPairing ==
    /\ Len(all_embeddings) = Len(successful_chunks)
    /\ \A i \in 1..Len(successful_chunks) :
          /\ PositionsOf(i) # {}
          /\ all_embeddings[i] = embedding_of(successful_chunks[i].text)
    /\ \A i, j \in 1..Len(successful_chunks) :
          i < j => \A p \in PositionsOf(i), q \in PositionsOf(j) : p < q
    /\ \A b \in 1..Len(batch_outcome) :
          batch_outcome[b] = "skipped" =>
              \A c \in BatchChunks(b) :
                  /\ \A i \in 1..Len(successful_chunks) : c \notin PositionsOf(i)
                  /\ ok_calls[c] + failed_calls[c] <= batch_attempts[b]

\* a call that returned after skipping a batch between two recorded batches
C6_Witness ==
    /\ epc = "returned"
    /\ \E b1, b2, b3 \in 1..Len(batch_outcome) :
          /\ b1 < b2 /\ b2 < b3
          /\ batch_outcome[b1] = "ok" /\ batch_outcome[b2] = "skipped"
          /\ batch_outcome[b3] = "ok"
          /\ all_chunks[Min(BatchChunks(b1))].text # all_chunks[Min(BatchChunks(b3))].text

\* An upper bound on the steps generate_embeddings has left: an attempt takes
\* at most batch_size + 2 steps (enter, one per text, leave), a batch at most
\* retry_attempts attempts and one step to move on, and Return one step.
StepsPerAttempt == batch_size + 2
StepsPerBatch == retry_attempts * StepsPerAttempt + 1

StepsLeft ==
    CASE epc = "start" ->
            Len(split_into_batches(prepare_chunks(news_items), batch_size))
                * StepsPerBatch + 2
      [] epc = "batch" ->
            (Len(batches) - batch_idx) * StepsPerBatch + 1
                - attempt * StepsPerAttempt
      [] epc = "embed" ->
            (Len(batches) - batch_idx) * StepsPerBatch + 1
                - attempt * StepsPerAttempt - (1 + text_pos)
      [] OTHER -> 0

\* the state part of C7: no raise, at most retry_attempts attempts per batch
\* and calls per chunk, every batch attempted by the time of the return, and a
\* call that has not returned can take a step
C7_Safe ==
    /\ epc # "raised"
    /\ \A b \in 1..Len(batch_attempts) : batch_attempts[b] <= retry_attempts
    /\ \A c \in 1..Len(ok_calls) : ok_calls[c] + failed_calls[c] <= retry_attempts
    /\ (epc = "returned" /\ retry_attempts > 0) =>
          \A b \in 1..Len(batch_attempts) : batch_attempts[b] >= 1
    /\ epc \in {"batch", "embed"} => ENABLED EmbedNext
    /\ StepsLeft >= 0

\* C7: generate_embeddings returns, never raises on an embed failure, makes at
\* most retry_attempts attempts per batch (so sends no chunk more often), and
\* attempts every batch, those after a skipped batch included.  Termination is
\* stated by a variant: every step lowers the bound StepsLeft, which is never
\* negative, and only a call that has returned cannot step.
C7_BoundedRetry == [](C7_Safe) /\ [][StepsLeft' < StepsLeft]_vars

\* a call that returned after two batches in a row used up all their attempts
C7_Witness ==
    /\ epc = "returned" /\ retry_attempts >= 2
    /\ \E b \in 1..(Len(batch_outcome) - 1) :
          /\ batch_outcome[b] = "skipped" /\ batch_attempts[b] = retry_attempts
          /\ batch_outcome[b + 1] = "skipped" /\ batch_attempts[b + 1] = retry_attempts

----------------------------------------------------------------------------
(* The normalization specification: one of the two _clean_text functions   *)
(* applied to a text and then to its own result.                           *)

\* U+0008 stands for the control characters 0x00-0x08
CleanAlphabet == {"a", " ", "\n", "\r", "<", ">", "U+0008"}

CleanTexts == UNION {[1..n -> CleanAlphabet] : n \in 0..MaxCleanLen}

clean_text(which, t) ==
    IF which = "splitter" THEN splitter_clean_text(t) ELSE embedder_clean_text(t)

CleanInit ==
    /\ chunk_size = 1 /\ chunk_overlap = 0 /\ separators = DefaultSeparators
    /\ text \in CleanTexts
    /\ full_text = <<>> /\ segments = <<>> /\ mode = "none"
    /\ chunks = <<>> /\ result = <<>>
    /\ pc = "start"
    /\ cleaner \in {"splitter", "embedder"}
    /\ cleaned_once = <<>> /\ cleaned_twice = <<>>
    /\ EmbedIdle /\ RecIdle /\ ProcIdle

CleanOnce ==
    /\ pc = "start"
    /\ cleaned_once' = clean_text(cleaner, text)
    /\ pc' = "cleaned"
    /\ UNCHANGED <<splitterVars, text, full_text, segments, mode, chunks, result,
                   embedVars, historyVars, cleaner, cleaned_twice, recVars,
                   procVars>>

CleanAgain ==
    /\ pc = "cleaned"
    /\ cleaned_twice' = clean_text(cleaner, cleaned_once)
    /\ pc' = "recleaned"
    /\ UNCHANGED <<splitterVars, text, full_text, segments, mode, chunks, result,
                   embedVars, historyVars, cleaner, cleaned_once, recVars,
                   procVars>>

CleanNext == CleanOnce \/ CleanAgain

CleanSpec == CleanInit /\ [][CleanNext]_vars

\* C11: TextSplitter._clean_text applied to its own result changes nothing.
C11_SplitterCleanIdempotent ==
    (pc = "recleaned" /\ cleaner = "splitter") => cleaned_twice = cleaned_once

\* a text with a tag, a carriage return and blank lines that the first pass
\* changed
C11_Witness ==
    /\ pc = "recleaned" /\ cleaner = "splitter"
    /\ cleaned_once # text /\ cleaned_once # <<>>
    /\ \E i \in 1..Len(text) : text[i] = "\r"
    /\ \E i \in 1..(Len(cleaned_once) - 1) :
           cleaned_once[i] = "\n" /\ cleaned_once[i + 1] = "\n"

\* C12: TextEmbedder._clean_text applied to its own result changes nothing.
C12_EmbedderCleanIdempotent ==
    (pc = "recleaned" /\ cleaner = "embedder") => cleaned_twice = cleaned_once

----------------------------------------------------------------------------
(* Properties of the splitter's configuration *)

\* C13: split_text never runs on a splitter with chunk_overlap >= chunk_size,
\* and the ValueError of the character-level branch is never raised.
C13_OverlapRejectedAtConfig ==
    /\ pc # "start" => chunk_overlap < chunk_size
    /\ pc # "raised"

----------------------------------------------------------------------------
(* The recursion specification: _split_text_recursive step by step, as a   *)
(* stack of activations. Only the control flow is kept: which branch an    *)
(* activation takes, the progress of its loop and the calls it makes.      *)

RecAlphabet == {"a", " ", "\n"}

RecTexts == UNION {[1..n -> RecAlphabet] : n \in 0..MaxRecLen}

\* separators lists, among them the empty list, lists that do not end with ""
\* and a list with "" before its end
RecSeparatorLists ==
    { <<>>, << <<" ">> >>, << <<"\n">>, <<" ">> >>, << <<>>, <<" ">> >>,
      << <<"\n", "\n">>, <<"\n">>, <<" ">>, <<>> >>, DefaultSeparators }

Frame(t, seps) == [text |-> t, seps |-> seps, phase |-> "call", i |-> 0]

Top == rec_stack[Len(rec_stack)]
Pop == SubSeq(rec_stack, 1, Len(rec_stack) - 1)
SetTop(f) == [rec_stack EXCEPT ![Len(rec_stack)] = f]

\* separator = separators[0] if separators else ""
TopSeparator == IF Top.seps # <<>> THEN Head(Top.seps) ELSE <<>>
TopSplits == PySplit(Top.text, TopSeparator)

RecInit ==
    /\ chunk_size \in 1..MaxChunkSize
    /\ chunk_overlap \in 0..(chunk_size - 1)
    /\ separators \in RecSeparatorLists
    /\ text \in RecTexts
    /\ full_text = <<>> /\ segments = <<>> /\ mode = "none"
    /\ chunks = <<>> /\ result = <<>>
    /\ pc = "running"
    /\ rec_stack = << Frame(text, separators) >>
    /\ EmbedIdle /\ CleanIdle /\ ProcIdle

RecFixed == <<splitterVars, text, full_text, segments, mode, chunks, result,
              embedVars, historyVars, cleanVars, procVars>>

\* leaving the innermost activation
RecReturnTo(stack) ==
    /\ rec_stack' = stack
    /\ pc' = IF stack = <<>> THEN "returned" ELSE "running"

\* if len(text) <= self.chunk_size: return [text]
RecBase ==
    /\ pc = "running" /\ Top.phase = "call"
    /\ Len(Top.text) <= chunk_size
    /\ RecReturnTo(Pop)
    /\ UNCHANGED RecFixed

\* if separator == "": enter the loop over range(0, len(text), stride)
RecChars ==
    /\ pc = "running" /\ Top.phase = "call"
    /\ Len(Top.text) > chunk_size
    /\ TopSeparator = <<>>
    /\ rec_stack' = SetTop([Top EXCEPT !.phase = "chars", !.i = 0])
    /\ UNCHANGED <<pc, RecFixed>>

\* one window of the character-level loop
RecWindow ==
    /\ pc = "running" /\ Top.phase = "chars"
    /\ Top.i < Len(Top.text)
    /\ rec_stack' = SetTop([Top EXCEPT !.i = Top.i + (chunk_size - chunk_overlap)])
    /\ UNCHANGED <<pc, RecFixed>>

RecCharsReturn ==
    /\ pc = "running" /\ Top.phase = "chars"
    /\ Top.i >= Len(Top.text)
    /\ RecReturnTo(Pop)
    /\ UNCHANGED RecFixed

\* if len(splits) == 1: return self._split_text_recursive(text, lower)
RecDelegate ==
    /\ pc = "running" /\ Top.phase = "call"
    /\ Len(Top.text) > chunk_size
    /\ TopSeparator # <<>>
    /\ Len(TopSplits) = 1
    /\ rec_stack' = Append(SetTop([Top EXCEPT !.phase = "tail"]),
                           Frame(Top.text, lower_separators(Top.seps)))
    /\ UNCHANGED <<pc, RecFixed>>

\* the delegating activation returns what its callee returned
RecTailReturn ==
    /\ pc = "running" /\ Top.phase = "tail"
    /\ RecReturnTo(Pop)
    /\ UNCHANGED RecFixed

\* entering the re-packing loop over splits
RecPackStart ==
    /\ pc = "running" /\ Top.phase = "call"
    /\ Len(Top.text) > chunk_size
    /\ TopSeparator # <<>>
    /\ Len(TopSplits) > 1
    /\ rec_stack' = SetTop([Top EXCEPT !.phase = "pack", !.i = 1])
    /\ UNCHANGED <<pc, RecFixed>>

\* a split that is not longer than chunk_size: no call
RecPackStep ==
    /\ pc = "running" /\ Top.phase = "pack"
    /\ Top.i <= Len(TopSplits)
    /\ Len(TopSplits[Top.i]) <= chunk_size
    /\ rec_stack' = SetTop([Top EXCEPT !.i = Top.i + 1])
    /\ UNCHANGED <<pc, RecFixed>>

\* a split longer than chunk_size: test_chunk is too long as well, and the
\* loop calls self._split_text_recursive(split, lower)
RecPackRecurse ==
    /\ pc = "running" /\ Top.phase = "pack"
    /\ Top.i <= Len(TopSplits)
    /\ Len(TopSplits[Top.i]) > chunk_size
    /\ rec_stack' = Append(SetTop([Top EXCEPT !.i = Top.i + 1]),
                           Frame(TopSplits[Top.i], lower_separators(Top.seps)))
    /\ UNCHANGED <<pc, RecFixed>>

RecPackReturn ==
    /\ pc = "running" /\ Top.phase = "pack"
    /\ Top.i > Len(TopSplits)
    /\ RecReturnTo(Pop)
    /\ UNCHANGED RecFixed

RecNext ==
    \/ RecBase \/ RecChars \/ RecWindow \/ RecCharsReturn
    \/ RecDelegate \/ RecTailReturn
    \/ RecPackStart \/ RecPackStep \/ RecPackRecurse \/ RecPackReturn

RecSpec == RecInit /\ [][RecNext]_vars

\* the innermost activation after the step
NewTop == rec_stack'[Len(rec_stack')]

\* the step makes a recursive call: the stack grows by an activation
CallMade == pc = "running" /\ Len(rec_stack') > Len(rec_stack)

\* the step is an iteration of the character-level loop
WindowTaken ==
    /\ pc = "running" /\ pc' = "running"
    /\ Len(rec_stack') = Len(rec_stack)
    /\ Top.phase = "chars" /\ NewTop.phase = "chars"

C14_CallsDescend ==
    /\ CallMade => \/ Len(NewTop.seps) < Len(Top.seps)
                   \/ NewTop.seps = << <<>> >>
    /\ WindowTaken => /\ chunk_size - chunk_overlap > 0
                      /\ NewTop.i > Top.i

\* what an activation still has to do by itself, as a number that every step
\* of the activation lowers
Remaining(f) ==
    CASE f.phase = "call" -> Len(f.text) + 3
      [] f.phase = "pack" -> Len(PySplit(f.text, Head(f.seps))) + 1 - f.i
      [] f.phase = "chars" -> Max({Len(f.text) - f.i, 0})
      [] f.phase = "tail" -> 0

\* stack s2 is below stack s1 in the lexicographic order, outermost
\* activation first: s2 is s1 with activations returned, or the first
\* activation in which they differ has less left to do in s2
StackBelow(s2, s1) ==
    \E k \in 1..Len(s1) :
        /\ \A j \in 1..(k - 1) : j <= Len(s2) /\ s2[j] = s1[j]
        /\ \/ Len(s2) = k - 1
           \/ k <= Len(s2) /\ Remaining(s2[k]) < Remaining(s1[k])

C14_Progress == StackBelow(rec_stack', rec_stack)

\* a running call has a next step, and the stack is never deeper than the
\* separators list allows, which makes the order of StackBelow well-founded
C14_Safe ==
    /\ pc = "running" => rec_stack # <<>> /\ ENABLED RecNext
    /\ pc = "returned" => rec_stack = <<>>
    /\ Len(rec_stack) <= Len(separators) + 1
    /\ \A j \in 1..Len(rec_stack) : Remaining(rec_stack[j]) >= 0

\* C14: with chunk_size > chunk_overlap >= 0 every call of
\* _split_text_recursive returns, for every separators list: each recursive
\* call gets a strictly shorter separators list or the fallback [""], the
\* character-level loop moves forward by a positive stride, and every step
\* of a running call takes the stack of activations down in a well-founded
\* order, so that no run goes on forever.
C14_Termination == [](C14_Safe) /\ [][C14_CallsDescend /\ C14_Progress]_vars

\* the character-level loop, past its second window, in an activation that
\* was delegated to by a call of the re-packing loop, for a separators list
\* that has no "" in it
C14_Witness ==
    /\ pc = "running"
    /\ Len(rec_stack) >= 3
    /\ rec_stack[1].phase = "pack" /\ rec_stack[2].phase = "tail"
    /\ Top.phase = "chars" /\ Top.i > chunk_size - chunk_overlap
    /\ \A j \in 1..Len(separators) : separators[j] # <<>>

----------------------------------------------------------------------------
(* Properties of the re-packing *)

\* the separator the outermost re-packing splits on: the first of the list
\* that occurs in t, when no "" comes before it (the chain of delegations)
RECURSIVE PackingSeparator(_, _)
PackingSeparator(t, seps) ==
    IF seps = <<>> \/ Head(seps) = <<>> THEN <<>>
    ELSE IF Len(PySplit(t, Head(seps))) > 1 THEN Head(seps)
    ELSE PackingSeparator(t, lower_separators(seps))

\* the maximal runs of pieces[i..]: each run takes as many consecutive pieces
\* as stay within chunk_size when rejoined with sep
RECURSIVE GreedyRuns(_, _, _)
GreedyRuns(pieces, i, sep) ==
    IF i > Len(pieces) THEN <<>>
    ELSE LET fits == {j \in i..Len(pieces) :
                         Len(Join(SubSeq(pieces, i, j), sep)) <= chunk_size}
         IN <<Join(SubSeq(pieces, i, Max(fits)), sep)>>
            \o GreedyRuns(pieces, Max(fits) + 1, sep)

\* C15: with chunk_overlap = 0, when the text is longer than chunk_size and
\* is split on a separator into pieces none of which is longer than
\* chunk_size, the segments are the maximal runs of consecutive pieces
\* rejoined with the separator (a run that is the empty string makes no
\* segment).
C15_GreedyPacking ==
    (/\ pc = "done" /\ mode = "packed" /\ chunk_overlap = 0
     /\ \A i \in 1..Len(PySplit(full_text, PackingSeparator(full_text, separators))) :
           Len(PySplit(full_text, PackingSeparator(full_text, separators))[i])
               <= chunk_size)
    => chunks = SelectSeq(GreedyRuns(PySplit(full_text,
                                             PackingSeparator(full_text, separators)),
                                     1, PackingSeparator(full_text, separators)),
                          LAMBDA r : r # <<>>)

----------------------------------------------------------------------------
(* Properties of the character-level fallback *)

\* no separator of the configured list other than "" occurs in t
NoSeparatorIn(t) ==
    \A j \in 1..Len(separators) :
        separators[j] # <<>> => Find(t, separators[j]) = -1

\* the offsets 0, stride, 2*stride, ... below the length of t
WindowOffsets(t) ==
    {o \in 0..(Len(t) - 1) : o % (chunk_size - chunk_overlap) = 0}

\* C16: a text longer than chunk_size in which none of the non-empty
\* separators occurs is returned as the windows text[o : o + chunk_size] at
\* the offsets o = 0, stride, 2*stride, ... < len(text), in that order: each
\* window is at most chunk_size long and nothing is prepended to it.
C16_FallbackWindows ==
    (pc = "done" /\ Len(full_text) > chunk_size /\ NoSeparatorIn(full_text))
    => /\ Len(chunks) = Cardinality(WindowOffsets(full_text))
       /\ \A j \in 1..Len(chunks) :
            LET o == (j - 1) * (chunk_size - chunk_overlap)
                width == Min({chunk_size, Len(full_text) - o})
            IN /\ Len(chunks[j]) = width
               /\ \A i \in 1..width : chunks[j][i] = full_text[o + i]

\* four windows with overlap, the last one short, reached through a
\* separators list that does not end with ""
C16_Witness ==
    /\ pc = "done" /\ Len(full_text) > chunk_size /\ NoSeparatorIn(full_text)
    /\ chunk_overlap > 0
    /\ Len(chunks) = 4
    /\ Len(chunks[4]) < chunk_size
    /\ \A j \in 1..Len(separators) : separators[j] # <<>>

----------------------------------------------------------------------------
(* Both entry points of an embedder: a call of split_text on its splitter, *)
(* which TextEmbedder builds with the default separators, or a call of     *)
(* generate_embeddings.                                                    *)

PipelineInit == (Init /\ separators = DefaultSeparators) \/ EmbedInit

PipelineNext == Next \/ EmbedNext

PipelineSpec == PipelineInit /\ [][PipelineNext]_vars

\* every item's content is empty after TextEmbedder._clean_text (so also
\* when news_items is empty)
NoContent ==
    \A i \in 1..Len(news_items) : embedder_clean_text(news_items[i].content) = <<>>

\* no call of embed_content was made, answered or failed
NoRemoteCall ==
    /\ \A c \in 1..Len(ok_calls) : ok_calls[c] = 0
    /\ \A c \in 1..Len(failed_calls) : failed_calls[c] = 0
    /\ epc \notin {"batch", "embed"}

\* C17: split_text returns [] for an empty or whitespace-only text, and
\* generate_embeddings on no items, or on items whose contents are all empty
\* after normalization, never reaches the batch loop, calls embed_content
\* zero times and returns ([], []).
C17_EmptyInputNoCall ==
    /\ (pc = "done" /\ Strip(text) = <<>>) => result = <<>>
    /\ (epc # "idle" /\ NoContent)
       => /\ NoRemoteCall
          /\ all_chunks = <<>>
          /\ all_embeddings = <<>> /\ successful_chunks = <<>>

\* a returned call with a client and text splitting off, on two items, one
\* of them whitespace-only
C17_Witness ==
    /\ epc = "returned" /\ client /\ ~enable_text_splitting
    /\ NoContent
    /\ Len(news_items) = 2
    /\ \E i \in 1..2 : news_items[i].content # <<>>

----------------------------------------------------------------------------
(* Properties of the chunk identifiers *)

\* the chunk records of all_chunks that come before c from the same document
EarlierOfDocument(c) ==
    {d \in 1..(c - 1) : all_chunks[d].news_index = all_chunks[c].news_index}

\* the records generate_embeddings builds are numbered 0..n-1 per document,
\* and no two records of one document share a chunk_id
DenseInAllChunks ==
    /\ \A c \in 1..Len(all_chunks) :
          all_chunks[c].chunk_index = Cardinality(EarlierOfDocument(c))
    /\ \A c, d \in 1..Len(all_chunks) :
          (c # d /\ all_chunks[c].news_index = all_chunks[d].news_index)
          => all_chunks[c].chunk_id # all_chunks[d].chunk_id

\* the records split_text returns carry their own position as chunk_id
DenseInResult ==
    pc = "done" => \A j \in 1..Len(result) : result[j].chunk_id = j - 1

\* C18: chunk identifiers are dense and unique per document over the kept
\* chunks, in the records of generate_embeddings and in the index that
\* split_text's own records carry.
C18_DenseChunkIds == DenseInAllChunks /\ DenseInResult

----------------------------------------------------------------------------
(* Properties of the line lookup *)

\* the lines of the normalized text, as split_text cuts them
LinesOfFullText == PySplit(full_text, <<"\n">>)

\* the line of 0-based offset off, counted in the text itself: one more than
\* the number of newlines strictly before off
LineOf(off) ==
    1 + Cardinality({p \in 1..Min({off, Len(full_text)}) : full_text[p] = "\n"})

\* the map split_text builds for the normalized text
MapOfFullText == build_char_line_map(LinesOfFullText)

\* C19: with the map built over the lines of the text, every offset of line
\* n, the offset of its trailing newline included, is looked up as n; the
\* lookup is non-decreasing in the offset, gives the last line for offsets
\* beyond the map and 1 for negative offsets.
C19_LineLookup ==
    pc = "done" =>
        LET map == MapOfFullText
            last == Len(full_text)
        IN /\ \A off \in 0..last : get_line_number(off, map) = LineOf(off)
           /\ \A off \in (-2)..(last + 2) :
                 get_line_number(off, map) <= get_line_number(off + 1, map)
           /\ \A off \in (last + 1)..(last + 3) :
                 get_line_number(off, map) = Len(LinesOfFullText)
           /\ \A off \in (-3)..(-1) : get_line_number(off, map) = 1

\* a text of at least three lines, one of them empty
C19_Witness ==
    /\ pc = "done"
    /\ Len(LinesOfFullText) >= 3
    /\ \E n \in 1..Len(LinesOfFullText) : LinesOfFullText[n] = <<>>
    /\ get_line_number(Len(full_text), MapOfFullText) >= 3

----------------------------------------------------------------------------
(* Properties of the overlap step *)

\* the pre-overlap segments: the recursion of _split_text_recursive with the
\* overlap step of lines 186-187 left out at every level
RECURSIVE flat_segments(_, _)
RECURSIVE flat_pack(_, _, _, _, _)

flat_pack(splits, i, acc, current, seps) ==
    IF i > Len(splits)
    THEN IF current # <<>> THEN Append(acc, current) ELSE acc
    ELSE LET split == splits[i]
             test_chunk == IF current # <<>> THEN current \o Head(seps) \o split
                           ELSE split
             saved == IF current # <<>> THEN Append(acc, current) ELSE acc
         IN IF Len(test_chunk) <= chunk_size
            THEN flat_pack(splits, i + 1, acc, test_chunk, seps)
            ELSE IF Len(split) > chunk_size
                 THEN flat_pack(splits, i + 1,
                          saved \o flat_segments(split, lower_separators(seps)),
                          <<>>, seps)
                 ELSE flat_pack(splits, i + 1, saved, split, seps)

flat_segments(t, seps) ==
    IF Len(t) <= chunk_size THEN <<t>>
    ELSE IF seps = <<>> \/ Head(seps) = <<>> THEN char_level_split(t)
    ELSE IF Len(PySplit(t, Head(seps))) = 1
         THEN flat_segments(t, lower_separators(seps))
         ELSE flat_pack(PySplit(t, Head(seps)), 1, <<>>, <<>>, seps)

\* C20: the chunks of a re-packed text are its pre-overlap segments with one
\* overlap prefix each, taken from the pre-overlap text of the predecessor,
\* also where a recursive call split an oversized piece.
C20_OverlapOnce ==
    (pc = "done" /\ mode = "packed" /\ chunk_overlap > 0)
    => chunks = IF Len(flat_segments(full_text, separators)) > 1
                THEN add_overlap(flat_segments(full_text, separators))
                ELSE flat_segments(full_text, separators)

----------------------------------------------------------------------------
(* The processing specification: runs of NewsEmbeddingProcessor.run over   *)
(* the news_items table. Every request to the record store, the embedder   *)
(* or the vector index is one step; update_news_status, which sends one    *)
(* update per row, is taken as one step for all its rows.                  *)

BatchSize == 50            \* self.batch_size of the processor
MaxItemsPerRun == 1000     \* self.max_items_per_run
UpsertBatchSize == 100     \* batch_size of upsert_vectors

Rows == 1..MaxRows
AllRuns == {1, 2}

\* the rows of a sequence of rows, as a set
RowSet(items) == {items[i] : i \in 1..Len(items)}

\* the sequence of the elements of a set of rows in the order of created_at,
\* which is the order of the row numbers
RECURSIVE Ordered(_)
Ordered(S) ==
    IF S = {} THEN <<>> ELSE <<Min(S)>> \o Ordered(S \ {Min(S)})

\* get_pending_news_items: select ... eq('embedding_status', 'pending')
\* .order('created_at').limit(self.max_items_per_run)
get_pending_news_items ==
    Slice(Ordered({row \in Rows : embedding_status[row] = "pending"}),
          0, MaxItemsPerRun)

\* update_news_status(news_ids, status): the table after the updates
update_news_status(table, news_ids, status) ==
    [row \in Rows |-> IF row \in news_ids THEN status ELSE table[row]]

\* the batches of run(): pending_items[i:i + self.batch_size]
run_batches(r) == split_into_batches(pending_items[r], BatchSize)

\* the argument news_items of the running process_batch, and its news_ids
batch_items(r) == run_batches(r)[run_batch[r] + 1]
news_ids(r) == RowSet(batch_items(r))

\* the chunk records generate_embeddings prepares for a list of rows, each
\* record kept as <<row, chunk_index>>, which is also its chunk_id
RECURSIVE chunks_of(_)
chunks_of(items) ==
    IF items = <<>> THEN <<>>
    ELSE [k \in 1..row_chunks[Head(items)] |-> <<Head(items), k - 1>>]
         \o chunks_of(Tail(items))

\* the members of a list of batches whose number is in ok, concatenated
RECURSIVE kept_batches(_, _, _)
kept_batches(bs, b, ok) ==
    IF b > Len(bs) THEN <<>>
    ELSE (IF b \in ok THEN bs[b] ELSE <<>>) \o kept_batches(bs, b + 1, ok)

\* processed_news_ids: the rows that have a chunk in successful_chunks
processed_news_ids(r) == {run_chunks[r][i][1] : i \in 1..Len(run_chunks[r])}

\* the chunk_id of the first chunk of the row in successful_chunks
representative_vector_id(r, row) ==
    run_chunks[r][Min({i \in 1..Len(run_chunks[r]) : run_chunks[r][i][1] = row})]

Statuses == {"pending", "processing", "completed", "failed"}

ProcInitWith(rs) ==
    /\ runs = rs
    /\ embedding_status \in [Rows -> {"pending", "completed", "failed"}]
    /\ embedding_vector_id = [row \in Rows |-> "none"]
    /\ row_chunks \in [Rows -> 0..MaxRowChunks]
    /\ run_pc = [r \in AllRuns |-> IF r \in rs THEN "start" ELSE "idle"]
    /\ pending_items = [r \in AllRuns |-> <<>>]
    /\ run_batch = [r \in AllRuns |-> 0]
    /\ run_chunks = [r \in AllRuns |-> <<>>]
    /\ run_vector_ids = [r \in AllRuns |-> <<>>]
    /\ run_outcome = [r \in AllRuns |-> "none"]
    /\ upserted_by = [row \in Rows |-> {}]
    /\ chunk_size = 1 /\ chunk_overlap = 0 /\ separators = DefaultSeparators
    /\ text = <<>> /\ full_text = <<>> /\ segments = <<>> /\ mode = "none"
    /\ chunks = <<>> /\ result = <<>> /\ pc = "idle"
    /\ client = TRUE /\ enable_text_splitting = TRUE /\ max_content_length = 0
    /\ news_items = <<>> /\ batch_size \in 1..MaxBatchSize /\ retry_attempts = 1
    /\ all_chunks = <<>> /\ batch_idx = 0 /\ attempt = 0 /\ text_pos = 0
    /\ embeddings_batch = <<>> /\ chunk_idx = 0 /\ all_embeddings = <<>>
    /\ successful_chunks = <<>> /\ epc = "idle"
    /\ ok_calls = <<>> /\ failed_calls = <<>> /\ batch_attempts = <<>>
    /\ batch_outcome = <<>>
    /\ CleanIdle /\ RecIdle

ProcFixed == <<splitterVars, callVars, embedVars, historyVars, cleanVars, recVars,
               runs, row_chunks>>

\* run(): pending_items = self.get_pending_news_items(); a failed query
\* gives [] as an empty table does, and run() returns
RunFetch(r) ==
    /\ run_pc[r] = "start"
    /\ \E answered \in BOOLEAN :
          LET fetched == IF answered THEN get_pending_news_items ELSE <<>>
          IN /\ pending_items' = [pending_items EXCEPT ![r] = fetched]
             /\ run_pc' = [run_pc EXCEPT ![r] = IF fetched = <<>> THEN "done"
                                                ELSE "loop"]
    /\ UNCHANGED <<ProcFixed, storeVars, run_batch, run_chunks, run_vector_ids,
                   upserted_by,
                   run_outcome>>

\* process_batch(batch), up to the try block:
\* self.update_news_status(news_ids, 'processing')
MarkProcessing(r) ==
    /\ run_pc[r] = "loop" /\ run_batch[r] < Len(run_batches(r))
    /\ embedding_status' = update_news_status(embedding_status, news_ids(r),
                                              "processing")
    /\ run_chunks' = [run_chunks EXCEPT ![r] = <<>>]
    /\ run_vector_ids' = [run_vector_ids EXCEPT ![r] = <<>>]
    /\ run_pc' = [run_pc EXCEPT ![r] = "processing"]
    /\ UNCHANGED <<ProcFixed, embedding_vector_id, pending_items, run_batch,
                   upserted_by,
                   run_outcome>>

\* embeddings, successful_chunks = self.embedder.generate_embeddings(...): the
\* chunks of the embedding batches that were not skipped, in order
GenerateEmbeddings(r) ==
    /\ run_pc[r] = "processing"
    /\ LET embed_batches == split_into_batches(chunks_of(batch_items(r)), batch_size)
       IN \E ok \in SUBSET (1..Len(embed_batches)) :
             run_chunks' = [run_chunks EXCEPT ![r] = kept_batches(embed_batches, 1, ok)]
    /\ run_pc' = [run_pc EXCEPT ![r] = "embedded"]
    /\ UNCHANGED <<ProcFixed, storeVars, pending_items, run_batch, run_vector_ids,
                   upserted_by,
                   run_outcome>>

\* BatchException without the update of the except block
BatchException_no_restore(r) ==
    /\ run_pc[r] = "processing"
    /\ run_pc' = [run_pc EXCEPT ![r] = "returned"]
    /\ run_outcome' = [run_outcome EXCEPT ![r] = "exception"]
    /\ UNCHANGED <<ProcFixed, storeVars, pending_items, run_batch, run_chunks,
                   run_vector_ids, upserted_by>>

\* generate_embeddings raises: the except block of process_batch
BatchException(r) ==
    /\ run_pc[r] = "processing"
    /\ embedding_status' = update_news_status(embedding_status, news_ids(r), "pending")
    /\ run_pc' = [run_pc EXCEPT ![r] = "returned"]
    /\ run_outcome' = [run_outcome EXCEPT ![r] = "exception"]
    /\ UNCHANGED <<ProcFixed, embedding_vector_id, pending_items, run_batch,
                   run_chunks, run_vector_ids, upserted_by>>

\* if not embeddings: restore 'pending' and return 0
NoEmbeddings(r) ==
    /\ run_pc[r] = "embedded" /\ run_chunks[r] = <<>>
    /\ embedding_status' = update_news_status(embedding_status, news_ids(r), "pending")
    /\ run_pc' = [run_pc EXCEPT ![r] = "returned"]
    /\ run_outcome' = [run_outcome EXCEPT ![r] = "no_embeddings"]
    /\ UNCHANGED <<ProcFixed, embedding_vector_id, pending_items, run_batch,
                   run_chunks, run_vector_ids, upserted_by>>

\* vector_ids = self.pinecone.upsert_vectors(successful_chunks, embeddings):
\* the ids of the upsert batches the index accepted; none when it fails whole
UpsertVectors(r) ==
    /\ run_pc[r] = "embedded" /\ run_chunks[r] # <<>>
    /\ LET upsert_batches == split_into_batches(run_chunks[r], UpsertBatchSize)
       IN \E ok \in SUBSET (1..Len(upsert_batches)) :
             LET successful_ids == kept_batches(upsert_batches, 1, ok)
             IN /\ run_vector_ids' = [run_vector_ids EXCEPT ![r] = successful_ids]
                /\ upserted_by' =
                      [row \in Rows |->
                          IF \E i \in 1..Len(successful_ids) : successful_ids[i][1] = row
                          THEN upserted_by[row] \cup {r} ELSE upserted_by[row]]
    /\ run_pc' = [run_pc EXCEPT ![r] = "upserted"]
    /\ UNCHANGED <<ProcFixed, storeVars, pending_items, run_batch, run_chunks,
                   run_outcome>>

\* if vector_ids: 'completed' for the processed rows, with the chunk_id of
\* their first chunk, then 'failed' for the other rows of the batch
RecordOutcome(r) ==
    /\ run_pc[r] = "upserted" /\ run_vector_ids[r] # <<>>
    /\ embedding_status' =
          update_news_status(
              update_news_status(embedding_status, processed_news_ids(r), "completed"),
              news_ids(r) \ processed_news_ids(r), "failed")
    /\ embedding_vector_id' =
          [row \in Rows |-> IF row \in processed_news_ids(r)
                            THEN representative_vector_id(r, row)
                            ELSE embedding_vector_id[row]]
    /\ run_pc' = [run_pc EXCEPT ![r] = "returned"]
    /\ run_outcome' = [run_outcome EXCEPT ![r] = "completed"]
    /\ UNCHANGED <<ProcFixed, pending_items, run_batch, run_chunks, run_vector_ids,
                   upserted_by>>

\* else: the upload failed, restore 'pending' and return 0
UploadFailed(r) ==
    /\ run_pc[r] = "upserted" /\ run_vector_ids[r] = <<>>
    /\ embedding_status' = update_news_status(embedding_status, news_ids(r), "pending")
    /\ run_pc' = [run_pc EXCEPT ![r] = "returned"]
    /\ run_outcome' = [run_outcome EXCEPT ![r] = "upload_failed"]
    /\ UNCHANGED <<ProcFixed, embedding_vector_id, pending_items, run_batch,
                   run_chunks, run_vector_ids, upserted_by>>

\* process_batch has returned: the next iteration of the loop of run()
NextRunBatch(r) ==
    /\ run_pc[r] = "returned"
    /\ run_batch' = [run_batch EXCEPT ![r] = @ + 1]
    /\ run_pc' = [run_pc EXCEPT ![r] = "loop"]
    /\ UNCHANGED <<ProcFixed, storeVars, pending_items, run_chunks, run_vector_ids,
                   upserted_by,
                   run_outcome>>

\* the loop of run() is over
RunDone(r) ==
    /\ run_pc[r] = "loop" /\ run_batch[r] = Len(run_batches(r))
    /\ run_pc' = [run_pc EXCEPT ![r] = "done"]
    /\ UNCHANGED <<ProcFixed, storeVars, pending_items, run_batch, run_chunks,
                   run_vector_ids, upserted_by,
                   run_outcome>>

\* a run that does not take place stays at "idle", where no action is enabled
ProcNext ==
    \E r \in AllRuns :
        \/ RunFetch(r) \/ MarkProcessing(r) \/ GenerateEmbeddings(r)
        \/ BatchException(r) \/ NoEmbeddings(r) \/ UpsertVectors(r)
        \/ RecordOutcome(r) \/ UploadFailed(r) \/ NextRunBatch(r) \/ RunDone(r)

\* one run of the script
ProcInit == ProcInitWith({1})
ProcSpec == ProcInit /\ [][ProcNext]_vars

\* two runs of the script that overlap in time
TwoRunInit == ProcInitWith({1, 2})
TwoRunSpec == TwoRunInit /\ [][ProcNext]_vars

\* ---------------------------------------------------------------------
\* Claims about the processor

\* the rows whose status differs between the two states of a step
StatusChanged == {row \in Rows : embedding_status'[row] # embedding_status[row]}

\* the status of the row moves one edge along
\* pending -> processing -> {pending, completed, failed}
AlongLifecycle(row) ==
    \/ /\ embedding_status[row] = "pending"
       /\ embedding_status'[row] = "processing"
    \/ /\ embedding_status[row] = "processing"
       /\ embedding_status'[row] \in {"pending", "completed", "failed"}

\* process_batch of run r has returned and every row of its batch is settled
BatchSettled(r) ==
    run_pc[r] = "returned" =>
        \A row \in news_ids(r) :
            embedding_status[row] \in {"pending", "completed", "failed"}

\* C21: in a run of the script, when process_batch returns, by whichever
\* path (no embeddings, no accepted vector ids, success, or an exception in
\* the try block), every row of the batch has status pending, completed or
\* failed, and every change of a row's status is an edge of
\* pending -> processing -> {pending, completed, failed}.
C21_NoItemLeftProcessing ==
    /\ [](\A r \in runs : BatchSettled(r))
    /\ [][\A row \in StatusChanged : AlongLifecycle(row)]_vars

\* a batch that returned by the success path with one row completed and
\* another row failed
C21_Witness ==
    /\ run_pc[1] = "returned" /\ run_outcome[1] = "completed"
    /\ \E row \in news_ids(1) : embedding_status[row] = "completed"
    /\ \E row \in news_ids(1) : embedding_status[row] = "failed"

\* the chunk ids of a row, and the members of a sequence as a set
ChunkIdsOf(row) == {<<row, k>> : k \in 0..(row_chunks[row] - 1)}
Members(seq) == {seq[i] : i \in 1..Len(seq)}

\* every chunk of the row is in successful_chunks of run r, and every one of
\* these chunk ids is among the ids upsert_vectors returned to run r
FullyStored(r, row) ==
    /\ ChunkIdsOf(row) \subseteq Members(run_chunks[r])
    /\ ChunkIdsOf(row) \subseteq Members(run_vector_ids[r])

\* C22: a row that process_batch has marked 'completed' has every one of
\* its chunks embedded and every one of its chunk ids among the ids the
\* index accepted in upsert_vectors.
C22_CompletedMeansStored ==
    \A r \in runs :
        (run_pc[r] = "returned" /\ run_outcome[r] = "completed") =>
            \A row \in news_ids(r) :
                embedding_status[row] = "completed" => FullyStored(r, row)

\* the text generate_embeddings hands to split_text for an item
SplitterInput(item) == embedder_clean_text(item.content)

\* splitting the text at the separator leaves it in one piece
NeverSplits(t, sep) == PySplit(t, sep) = <<t>>

\* C23: with text splitting enabled, the content of every item reaches the
\* splitter without a line break, so the separators "\n\n" and "\n" split
\* nothing in it, and every chunk record of generate_embeddings has
\* line_start = 1 and line_end = 1, however many lines the content has.
C23_SingleLineChunks ==
    (enable_text_splitting /\ epc # "start") =>
        /\ \A i \in 1..Len(news_items) :
              LET t == SplitterInput(news_items[i])
                  ft == split_text(t).full_text
              IN /\ \A k \in 1..Len(t) : t[k] \notin {"\n", "\r"}
                 /\ NeverSplits(ft, <<"\n", "\n">>) /\ NeverSplits(ft, <<"\n">>)
        /\ \A c \in 1..Len(all_chunks) :
              all_chunks[c].line_start = 1 /\ all_chunks[c].line_end = 1

\* an item whose content has two lines has contributed several chunk records
C23_Witness ==
    /\ enable_text_splitting /\ epc # "start"
    /\ \E i \in 1..Len(news_items) :
          /\ \E k \in 1..Len(news_items[i].content) : news_items[i].content[k] = "\n"
          /\ Cardinality({c \in 1..Len(all_chunks) :
                             all_chunks[c].news_index = i - 1}) >= 2

\* run r is inside process_batch, between marking its batch 'processing' and
\* the update that ends the call
InProcessBatch(r) == run_pc[r] \in {"processing", "embedded", "upserted"}

\* C24: two runs that overlap in time never work on the same row: the
\* batches of two runs that are both inside process_batch are disjoint, and
\* no row has had a chunk upserted by more than one run.
C24_NoDoubleProcessing ==
    /\ \A r1, r2 \in runs :
          (r1 # r2 /\ InProcessBatch(r1) /\ InProcessBatch(r2)) =>
              news_ids(r1) \cap news_ids(r2) = {}
    /\ \A row \in Rows : Cardinality(upserted_by[row]) <= 1

====
